---- MODULE Spec2Model ----
(***************************************************************************)
(* Model of the chroma-viewer filter compiler (use-filters), the raw-JSON  *)
(* filter editor (advanced-filter), and the browse / search / metadata     *)
(* hooks as they are composed by the Home page (app/page.tsx).             *)
(***************************************************************************)
EXTENDS Integers, Sequences, FiniteSets, TLC

(***************************************************************************)
(* JSON values.  A value is a record tagged by t; an object keeps its      *)
(* members as a sequence of key/value pairs in insertion order, which is   *)
(* the order Object.keys reports.                                          *)
(***************************************************************************)
JNull == [t |-> "null"]
JStr(s) == [t |-> "str", s |-> s]
JNum(n) == [t |-> "num", n |-> n]
JBool(b) == [t |-> "bool", b |-> b]
JArr(a) == [t |-> "arr", a |-> a]
JObj(o) == [t |-> "obj", o |-> o]
Member(k, v) == [k |-> k, v |-> v]

\* JavaScript truthiness of a parsed JSON value (the `!where` test).
Falsy(v) ==
  \/ v.t = "null"
  \/ v.t = "bool" /\ ~v.b
  \/ v.t = "num" /\ v.n = 0
  \/ v.t = "str" /\ v.s = ""

\* typeof v === "object" && v !== null
IsObjectLike(v) == v.t \in {"obj", "arr"}

\* Object.keys(v) for an object or an array (array keys are the indices).
ObjectKeys(v) ==
  IF v.t = "obj" THEN [i \in 1..Len(v.o) |-> v.o[i].k]
  ELSE IF v.t = "arr" THEN [i \in 1..Len(v.a) |-> ToString(i - 1)]
  ELSE <<>>

\* `key in v` for an object or an array.
HasKey(v, key) == \E i \in 1..Len(ObjectKeys(v)) : ObjectKeys(v)[i] = key

\* v[key] for a key that v has.
GetKey(v, key) ==
  LET i == CHOOSE j \in 1..Len(ObjectKeys(v)) : ObjectKeys(v)[j] = key
  IN IF v.t = "obj" THEN v.o[i].v ELSE v.a[i]

(***************************************************************************)
(* use-filters: filters <-> where clause.                                  *)
(***************************************************************************)
\* A validOperators that forgets $in.
validOperators_noIn == <<"$eq", "$ne", "$gt", "$lt">>

validOperators == <<"$eq", "$ne", "$gt", "$lt", "$in">>

\* { [filter.field]: { [filter.operator]: filter.value } }
Predicate(filter) ==
  JObj(<<Member(filter.field, JObj(<<Member(filter.operator, filter.value)>>))>>)

\* A filtersToWhereClause without the single-filter case.
filtersToWhereClause_alwaysAnd(fs) ==
  IF Len(fs) = 0 THEN JNull
  ELSE JObj(<<Member("$and", JArr([i \in 1..Len(fs) |-> Predicate(fs[i])]))>>)

filtersToWhereClause(fs) ==
  IF Len(fs) = 0 THEN JNull
  ELSE IF Len(fs) = 1 THEN Predicate(fs[1])
  ELSE JObj(<<Member("$and", JArr([i \in 1..Len(fs) |-> Predicate(fs[i])]))>>)

\* Results of parseSingleCondition: a filter, null, or a thrown TypeError
\* (Object.keys(null)).
NoFilter == [id |-> 0, field |-> "", operator |-> "", value |-> JNull]
PFilter(f) == [r |-> "filter", f |-> f]
PNull == [r |-> "null", f |-> NoFilter]
PThrow == [r |-> "throw", f |-> NoFilter]

parseSingleCondition(condition, id) ==
  IF condition.t = "null" THEN PThrow
  ELSE IF condition.t \in {"num", "bool"} THEN PNull
  ELSE IF condition.t = "str" THEN PNull
  ELSE
    LET keys == ObjectKeys(condition) IN
    IF Len(keys) # 1 THEN PNull
    ELSE
      LET field == keys[1]
          operatorObj == GetKey(condition, field)
      IN
      IF ~IsObjectLike(operatorObj) THEN PNull
      ELSE
        LET operators == ObjectKeys(operatorObj) IN
        IF Len(operators) # 1 THEN PNull
        ELSE
          LET operator == operators[1] IN
          IF ~(\E i \in 1..Len(validOperators) : validOperators[i] = operator)
          THEN PNull
          ELSE PFilter([id |-> id, field |-> field, operator |-> operator,
                        value |-> GetKey(operatorObj, operator)])

\* The filters pushed for the members conds[1..n], ids drawn from firstId on.
RECURSIVE parseConditions(_, _, _)
parseConditions(conds, n, firstId) ==
  IF n = 0 THEN [threw |-> FALSE, filters |-> <<>>]
  ELSE
    LET before == parseConditions(conds, n - 1, firstId)
        parsed == parseSingleCondition(conds[n], firstId + n - 1)
    IN
    IF before.threw \/ parsed.r = "throw" THEN [threw |-> TRUE, filters |-> <<>>]
    ELSE IF parsed.r = "filter"
         THEN [threw |-> FALSE, filters |-> Append(before.filters, parsed.f)]
         ELSE before

\* parseWhereClause(where); a primitive where makes `"$and" in where` throw.
parseWhereClause(where, firstId) ==
  IF ~IsObjectLike(where) THEN [threw |-> TRUE, filters |-> <<>>]
  ELSE IF HasKey(where, "$and") /\ GetKey(where, "$and").t = "arr"
  THEN LET conds == GetKey(where, "$and").a
       IN parseConditions(conds, Len(conds), firstId)
  ELSE parseConditions(<<where>>, 1, firstId)

\* The filter list setFiltersFromWhere(where) commits, or a throw.
setFiltersFromWhereResult(where, firstId) ==
  IF Falsy(where) THEN [threw |-> FALSE, filters |-> <<>>]
  ELSE parseWhereClause(where, firstId)

(***************************************************************************)
(* JSON text.  A text is modelled as its sequence of lexical tokens; the   *)
(* token "bad" stands for a lexical error (an unquoted key, a single-      *)
(* quoted string).  The empty sequence is a blank text.                    *)
(***************************************************************************)
TLBrace == [k |-> "{"]
TRBrace == [k |-> "}"]
TLBrack == [k |-> "["]
TRBrack == [k |-> "]"]
TColon == [k |-> ":"]
TComma == [k |-> ","]
TNull == [k |-> "null"]
TBad == [k |-> "bad"]
TStr(s) == [k |-> "str", s |-> s]
TNum(n) == [k |-> "num", n |-> n]
TBool(b) == [k |-> "bool", b |-> b]

PFail == [ok |-> FALSE, v |-> JNull, next |-> 0]
POk(v, next) == [ok |-> TRUE, v |-> v, next |-> next]

\* Assignment o[k] = v on an object under construction: a repeated key keeps
\* its first position and takes the last value.
SetMember(o, k, v) ==
  IF \E i \in 1..Len(o) : o[i].k = k
  THEN [i \in 1..Len(o) |-> IF o[i].k = k THEN Member(k, v) ELSE o[i]]
  ELSE Append(o, Member(k, v))

RECURSIVE ParseValue(_, _)
RECURSIVE ParseMembers(_, _, _)
RECURSIVE ParseElements(_, _, _)

ParseValue(toks, i) ==
  IF i > Len(toks) THEN PFail
  ELSE
    LET tk == toks[i] IN
    IF tk.k = "str" THEN POk(JStr(tk.s), i + 1)
    ELSE IF tk.k = "num" THEN POk(JNum(tk.n), i + 1)
    ELSE IF tk.k = "bool" THEN POk(JBool(tk.b), i + 1)
    ELSE IF tk.k = "null" THEN POk(JNull, i + 1)
    ELSE IF tk.k = "{" THEN
      IF i + 1 <= Len(toks) /\ toks[i + 1].k = "}" THEN POk(JObj(<<>>), i + 2)
      ELSE ParseMembers(toks, i + 1, <<>>)
    ELSE IF tk.k = "[" THEN
      IF i + 1 <= Len(toks) /\ toks[i + 1].k = "]" THEN POk(JArr(<<>>), i + 2)
      ELSE ParseElements(toks, i + 1, <<>>)
    ELSE PFail

ParseMembers(toks, i, acc) ==
  IF i + 1 > Len(toks) \/ toks[i].k # "str" \/ toks[i + 1].k # ":" THEN PFail
  ELSE
    LET r == ParseValue(toks, i + 2) IN
    IF ~r.ok \/ r.next > Len(toks) THEN PFail
    ELSE
      LET acc2 == SetMember(acc, toks[i].s, r.v) IN
      IF toks[r.next].k = "}" THEN POk(JObj(acc2), r.next + 1)
      ELSE IF toks[r.next].k = "," THEN ParseMembers(toks, r.next + 1, acc2)
      ELSE PFail

ParseElements(toks, i, acc) ==
  LET r == ParseValue(toks, i) IN
  IF ~r.ok \/ r.next > Len(toks) THEN PFail
  ELSE
    LET acc2 == Append(acc, r.v) IN
    IF toks[r.next].k = "]" THEN POk(JArr(acc2), r.next + 1)
    ELSE IF toks[r.next].k = "," THEN ParseElements(toks, r.next + 1, acc2)
    ELSE PFail

\* A JSON.parse that stops at the end of the first value.
JSONparse_prefix(toks) ==
  LET r == ParseValue(toks, 1) IN
  IF r.ok THEN r ELSE PFail

\* JSON.parse(text): a value, or a SyntaxError (ok = FALSE).
JSONparse(toks) ==
  LET r == ParseValue(toks, 1) IN
  IF r.ok /\ r.next = Len(toks) + 1 THEN r ELSE PFail

RECURSIVE JSONstringify(_)
RECURSIVE StringifyMembers(_, _)
RECURSIVE StringifyElements(_, _)

\* JSON.stringify(v); the indentation argument only adds white space.
JSONstringify(v) ==
  IF v.t = "str" THEN <<TStr(v.s)>>
  ELSE IF v.t = "num" THEN <<TNum(v.n)>>
  ELSE IF v.t = "bool" THEN <<TBool(v.b)>>
  ELSE IF v.t = "null" THEN <<TNull>>
  ELSE IF v.t = "obj" THEN <<TLBrace>> \o StringifyMembers(v.o, 1) \o <<TRBrace>>
  ELSE <<TLBrack>> \o StringifyElements(v.a, 1) \o <<TRBrack>>

StringifyMembers(o, i) ==
  IF i > Len(o) THEN <<>>
  ELSE (IF i > 1 THEN <<TComma>> ELSE <<>>)
       \o <<TStr(o[i].k), TColon>> \o JSONstringify(o[i].v)
       \o StringifyMembers(o, i + 1)

StringifyElements(a, i) ==
  IF i > Len(a) THEN <<>>
  ELSE (IF i > 1 THEN <<TComma>> ELSE <<>>)
       \o JSONstringify(a[i]) \o StringifyElements(a, i + 1)

(***************************************************************************)
(* JavaScript strings typed by the user are sequences of one-character     *)
(* strings over letters, digits, the space and the comma; Str joins them.  *)
(***************************************************************************)
NULL == <<>>
Some(v) == <<v>>

Digits == <<"0", "1", "2", "3", "4", "5", "6", "7", "8", "9">>
IsDigit(ch) == \E d \in 1..Len(Digits) : Digits[d] = ch
DigitValue(ch) == (CHOOSE d \in 1..Len(Digits) : Digits[d] = ch) - 1

RECURSIVE Str(_)
Str(chars) == IF Len(chars) = 0 THEN "" ELSE Head(chars) \o Str(Tail(chars))

\* String.prototype.trim
trim(chars) ==
  IF \A i \in 1..Len(chars) : chars[i] = " " THEN <<>>
  ELSE
    LET first == CHOOSE i \in 1..Len(chars) :
                   chars[i] # " " /\ \A j \in 1..(i - 1) : chars[j] = " "
        last == CHOOSE i \in 1..Len(chars) :
                  chars[i] # " " /\ \A j \in (i + 1)..Len(chars) : chars[j] = " "
    IN SubSeq(chars, first, last)

\* String.prototype.split(",")
RECURSIVE split(_)
split(chars) ==
  IF \A i \in 1..Len(chars) : chars[i] # "," THEN <<chars>>
  ELSE
    LET c == CHOOSE i \in 1..Len(chars) :
               chars[i] = "," /\ \A j \in 1..(i - 1) : chars[j] # ","
    IN <<SubSeq(chars, 1, c - 1)>> \o split(SubSeq(chars, c + 1, Len(chars)))

\* Number(chars): over this alphabet a blank string, decimal digits, or a
\* hexadecimal literal 0x... are numbers; everything else is NaN.
HexDigits ==
  <<"0", "1", "2", "3", "4", "5", "6", "7", "8", "9", "a", "b", "c", "d", "e", "f">>
IsHexDigit(ch) == \E d \in 1..Len(HexDigits) : HexDigits[d] = ch
HexValue(ch) == (CHOOSE d \in 1..Len(HexDigits) : HexDigits[d] = ch) - 1

IsHexLiteral(chars) ==
  /\ Len(chars) >= 3
  /\ chars[1] = "0"
  /\ chars[2] \in {"x", "X"}
  /\ \A i \in 3..Len(chars) : IsHexDigit(chars[i])

IsNumeric(chars) ==
  \/ \A i \in 1..Len(chars) : IsDigit(chars[i])
  \/ IsHexLiteral(chars)

RECURSIVE DecimalOf(_)
DecimalOf(chars) ==
  IF Len(chars) = 0 THEN 0
  ELSE 10 * DecimalOf(SubSeq(chars, 1, Len(chars) - 1))
       + DigitValue(chars[Len(chars)])

RECURSIVE HexOf(_)
HexOf(chars) ==
  IF Len(chars) = 0 THEN 0
  ELSE 16 * HexOf(SubSeq(chars, 1, Len(chars) - 1))
       + HexValue(chars[Len(chars)])

NumberOf(chars) ==
  IF IsHexLiteral(chars) THEN HexOf(SubSeq(chars, 3, Len(chars)))
  ELSE DecimalOf(chars)

(***************************************************************************)
(* filter-editor                                                           *)
(***************************************************************************)
OPERATORS == <<"$eq", "$ne", "$gt", "$lt", "$in">>

parseValue(value, operator) ==
  LET trimmed == trim(value) IN
  IF operator = "$in"
  THEN JArr([i \in 1..Len(split(trimmed)) |-> JStr(Str(trim(split(trimmed)[i])))])
  ELSE IF IsNumeric(trimmed) /\ trimmed # <<>> THEN JNum(NumberOf(trimmed))
  ELSE JStr(Str(trimmed))

(***************************************************************************)
(* The collaborator: two collections served through the API routes.        *)
(***************************************************************************)
\* The collaborator's state: per collection, the metadata of its records in
\* record order.  The program never writes it.
VARIABLE chromaMetadatas

Collections == {"docs", "notes"}

\* collection.count()
CollectionCount(c) == Len(chromaMetadatas[c])

Document(c, i) ==
  IF i % 3 = 1 THEN Some(<<"c", "a", "t">>)
  ELSE IF i % 3 = 2 THEN Some(<<" ">>)
  ELSE NULL

\* The metadata the collaborator holds for record i of collection c.
Metadata(c, i) == chromaMetadatas[c][i]

\* The content the collaborator starts with: 25 records in "docs", 5 in
\* "notes".
SeededMetadata(c, i) ==
  IF c = "docs"
  THEN JObj(<<Member("type", JStr(IF i % 3 = 1 THEN "text" ELSE "image")),
              Member("year", JNum(IF i % 4 = 0 THEN 42 ELSE 7))>>)
  ELSE JObj(<<Member("type", JStr(IF i % 3 = 1 THEN "text" ELSE "image"))>>)

SeededCollections ==
  [c \in Collections |->
     [i \in 1..(IF c = "docs" THEN 25 ELSE 5) |-> SeededMetadata(c, i)]]

\* The id and the embedding the collaborator holds for record i.
Id(c, i) == <<c, i>>
Embedding(c, i) == Some(<<i>>)

\* The columns collection.get returns for the records numbered by ids: only
\* the included columns are present (an absent column is NULL).
GetResult(c, ids, include) ==
  [ids |-> [k \in 1..Len(ids) |-> Id(c, ids[k])],
   documents |-> IF "documents" \in include
                 THEN [k \in 1..Len(ids) |-> Document(c, ids[k])] ELSE NULL,
   metadatas |-> IF "metadatas" \in include
                 THEN [k \in 1..Len(ids) |-> Metadata(c, ids[k])] ELSE NULL,
   embeddings |-> IF "embeddings" \in include
                  THEN [k \in 1..Len(ids) |-> Embedding(c, ids[k])] ELSE NULL]

\* column?.[index] ?? null, with the null of the column's element type
elementOrNull(column, index, null) ==
  IF index \in 1..Len(column) THEN column[index] ELSE null

\* An adapter that leaves the embedding out.
toChromaRecords_noEmbedding(result) ==
  [index \in 1..Len(result.ids) |->
     [id |-> result.ids[index],
      document |-> elementOrNull(result.documents, index, NULL),
      metadata |-> elementOrNull(result.metadatas, index, JNull),
      embedding |-> NULL]]

\* result.ids.map((id, index) => ({id, document, metadata, embedding}))
toChromaRecords(result) ==
  [index \in 1..Len(result.ids) |->
     [id |-> result.ids[index],
      document |-> elementOrNull(result.documents, index, NULL),
      metadata |-> elementOrNull(result.metadatas, index, JNull),
      embedding |-> elementOrNull(result.embeddings, index, NULL)]]

Min(a, b) == IF a < b THEN a ELSE b

\* The collaborator's reading of one predicate {field: {operator: value}}.
MatchesPredicate(metadata, field, operator, value) ==
  /\ HasKey(metadata, field)
  /\ LET held == GetKey(metadata, field) IN
     IF operator = "$eq" THEN held = value
     ELSE IF operator = "$ne" THEN held # value
     ELSE IF operator = "$gt"
     THEN held.t = "num" /\ value.t = "num" /\ held.n > value.n
     ELSE IF operator = "$lt"
     THEN held.t = "num" /\ value.t = "num" /\ held.n < value.n
     ELSE IF operator = "$in"
     THEN value.t = "arr" /\ \E k \in 1..Len(value.a) : value.a[k] = held
     ELSE FALSE

\* The collaborator's reading of a where clause: absent, a conjunction, or
\* one predicate.
Matches(metadata, where) ==
  LET one(w) == /\ IsObjectLike(w) /\ Len(ObjectKeys(w)) = 1
                /\ LET field == ObjectKeys(w)[1]
                       operatorObj == GetKey(w, field)
                   IN /\ IsObjectLike(operatorObj)
                      /\ Len(ObjectKeys(operatorObj)) = 1
                      /\ MatchesPredicate(metadata, field,
                                          ObjectKeys(operatorObj)[1],
                                          GetKey(operatorObj,
                                                 ObjectKeys(operatorObj)[1]))
  IN IF where = JNull THEN TRUE
     ELSE IF HasKey(where, "$and")
     THEN /\ GetKey(where, "$and").t = "arr"
          /\ \A k \in 1..Len(GetKey(where, "$and").a) :
               one(GetKey(where, "$and").a[k])
     ELSE one(where)

\* The ids of records 1..n of collection c that match where, ascending.
RECURSIVE MatchingIds(_, _, _)
MatchingIds(c, n, where) ==
  IF n = 0 THEN <<>>
  ELSE IF Matches(Metadata(c, n), where)
       THEN Append(MatchingIds(c, n - 1, where), n)
       ELSE MatchingIds(c, n - 1, where)

\* collection.get({offset, limit, where, include})
collectionGet(c, offset, limit, where, include) ==
  LET ids == MatchingIds(c, CollectionCount(c), where) IN
  GetResult(c, SubSeq(ids, Min(offset, Len(ids)) + 1,
                      Min(offset + limit, Len(ids))), include)

\* GET /api/records, success branch: total is collection.count()
RecordsGET(req) ==
  [records |->
     toChromaRecords(
       collectionGet(req.collection, (req.page - 1) * req.pageSize,
                     req.pageSize, req.where,
                     {"documents", "metadatas", "embeddings"})),
   total |-> CollectionCount(req.collection)]

\* whereDocument: {$contains: query}
Contains(document, query) ==
  /\ document # NULL
  /\ \E k \in 0..(Len(document[1]) - Len(query)) :
       SubSeq(document[1], k + 1, k + Len(query)) = query

RECURSIVE SelectIds(_, _, _)
SelectIds(c, n, query) ==
  IF n = 0 THEN <<>>
  ELSE IF Contains(Document(c, n), query)
       THEN Append(SelectIds(c, n - 1, query), n)
       ELSE SelectIds(c, n - 1, query)

\* collection.get({whereDocument: {$contains: query}, limit, include})
collectionGetContaining(c, query, n, include) ==
  LET ids == SelectIds(c, CollectionCount(c), query) IN
  GetResult(c, SubSeq(ids, 1, Min(n, Len(ids))), include)

\* collection.query({queryTexts: [query], nResults, include}): one nested
\* column per query text, nearest first.
collectionQuery(c, query, nResults, include) ==
  LET n == Min(nResults, CollectionCount(c))
      got == GetResult(c, [i \in 1..n |-> i], include)
  IN [ids |-> <<got.ids>>,
      documents |-> IF "documents" \in include THEN <<got.documents>> ELSE NULL,
      metadatas |-> IF "metadatas" \in include THEN <<got.metadatas>> ELSE NULL,
      embeddings |-> IF "embeddings" \in include THEN <<got.embeddings>> ELSE NULL,
      distances |-> IF "distances" \in include
                    THEN <<[i \in 1..n |-> i]>> ELSE NULL]

\* POST /api/search, success branch
SearchPOST(req) ==
  IF req.type = "text"
  THEN [results |->
          toChromaRecords(
            collectionGetContaining(req.collection, req.query, req.limit,
                                    {"documents", "metadatas", "embeddings"})),
        distances |-> <<>>]
  ELSE LET result == collectionQuery(req.collection, req.query, req.limit,
                                     {"documents", "metadatas", "distances"})
           ids == elementOrNull(result.ids, 1, <<>>)
           documents == elementOrNull(result.documents, 1, <<>>)
           metadatas == elementOrNull(result.metadatas, 1, <<>>)
       IN [results |->
             [index \in 1..Len(ids) |->
                [id |-> ids[index],
                 document |-> elementOrNull(documents, index, NULL),
                 metadata |-> elementOrNull(metadatas, index, JNull),
                 embedding |-> NULL]],
           distances |-> elementOrNull(result.distances, 1, <<>>)]

(***************************************************************************)
(* GET /api/metadata: the fields of the first 100 records' metadata.       *)
(***************************************************************************)
detectType(value) ==
  IF value.t = "null" THEN "null"
  ELSE IF value.t = "arr" THEN "array"
  ELSE IF value.t = "str" THEN "string"
  ELSE IF value.t = "num" THEN "number"
  ELSE IF value.t = "bool" THEN "boolean"
  ELSE "object"

\* field.types.add(tag): a Set of strings kept in insertion order.
typesAdd(types, tag) ==
  IF \E k \in 1..Len(types) : types[k] = tag THEN types
  ELSE Append(types, tag)

\* field.sampleValues.add(value): a Set of values kept in insertion order.
\* Primitives are the same element when they are the same value; every array
\* or object of the decoded response is an object of its own.
sampleValuesAdd(sampleValues, value) ==
  IF ~IsObjectLike(value)
     /\ \E k \in 1..Len(sampleValues) : sampleValues[k] = value
  THEN sampleValues
  ELSE Append(sampleValues, value)

\* The body of the inner loop for one [key, value] entry: the entry of key
\* in fieldMap (made first if fieldMap has none) takes the tag and, while it
\* holds fewer than 5 sample values, the value.
RECURSIVE addEntry(_, _, _)
addEntry(fieldMap, key, value) ==
  LET field == IF fieldMap = <<>>
               THEN [name |-> key, types |-> <<>>, sampleValues |-> <<>>]
               ELSE Head(fieldMap)
  IN IF field.name = key
     THEN <<[name |-> key,
             types |-> typesAdd(field.types, detectType(value)),
             sampleValues |->
               IF Len(field.sampleValues) < 5
               THEN sampleValuesAdd(field.sampleValues, value)
               ELSE field.sampleValues]>>
          \o (IF fieldMap = <<>> THEN <<>> ELSE Tail(fieldMap))
     ELSE <<field>> \o addEntry(Tail(fieldMap), key, value)

\* The inner loop over the first n entries of one metadata object.
RECURSIVE addEntries(_, _, _)
addEntries(fieldMap, metadata, n) ==
  IF n = 0 THEN fieldMap
  ELSE addEntry(addEntries(fieldMap, metadata, n - 1),
                metadata.o[n].k, metadata.o[n].v)

\* The outer loop from metadata i on; a record without metadata is skipped.
RECURSIVE analyzeMetadatas(_, _, _)
analyzeMetadatas(fieldMap, metadatas, i) ==
  IF i > Len(metadatas) THEN fieldMap
  ELSE IF Falsy(metadatas[i])
  THEN analyzeMetadatas(fieldMap, metadatas, i + 1)
  ELSE LET next == addEntries(fieldMap, metadatas[i],
                              Len(ObjectKeys(metadatas[i])))
       IN IF next = fieldMap
          THEN analyzeMetadatas(fieldMap, metadatas, i + 1)
          ELSE analyzeMetadatas(next, metadatas, i + 1)

RECURSIVE join(_, _)
join(typeArray, separator) ==
  IF Len(typeArray) = 0 THEN ""
  ELSE IF Len(typeArray) = 1 THEN typeArray[1]
  ELSE join(SubSeq(typeArray, 1, Len(typeArray) - 1), separator)
         \o separator \o typeArray[Len(typeArray)]

\* A type label that keeps only the first tag observed.
typeLabel_firstOnly(typeArray) == typeArray[1]

\* typeArray.length === 1 ? typeArray[0] : typeArray.join(" | ")
typeLabel(typeArray) ==
  IF Len(typeArray) = 1 THEN typeArray[1] ELSE join(typeArray, " | ")

\* The metadata keys in use, in the order localeCompare puts them.
KeyNames == <<"n", "t", "type", "u", "year">>

localeCompare(a, b) ==
  (CHOOSE k \in 1..Len(KeyNames) : KeyNames[k] = a)
    - (CHOOSE k \in 1..Len(KeyNames) : KeyNames[k] = b)

\* fields.sort((a, b) => a.name.localeCompare(b.name)); names are unique.
RECURSIVE sortFields(_)
sortFields(fields) ==
  IF fields = <<>> THEN <<>>
  ELSE LET first == CHOOSE j \in 1..Len(fields) :
                      \A k \in 1..Len(fields) :
                        localeCompare(fields[j].name, fields[k].name) <= 0
       IN <<fields[first]>>
            \o sortFields(SubSeq(fields, 1, first - 1)
                            \o SubSeq(fields, first + 1, Len(fields)))

\* The fields computed from a metadatas column.
analyzeFields(metadatas) ==
  LET fieldMap == analyzeMetadatas(<<>>, metadatas, 1) IN
  sortFields(<<>> \o [j \in 1..Len(fieldMap) |->
                         [name |-> fieldMap[j].name,
                          type |-> typeLabel(fieldMap[j].types),
                          sampleValues |-> fieldMap[j].sampleValues]])

\* GET /api/metadata, success branch: collection.get({limit: 100})
MetadataGET(c) ==
  analyzeFields(SubSeq(chromaMetadatas[c], 1, Min(100, CollectionCount(c))))

(***************************************************************************)
(* Bounds and the inputs the user chooses from.                            *)
(***************************************************************************)
MaxInFlight == 2
MaxIds == 2
NumPageSizes == 2
MaxSamples == 3

PAGE_SIZE_OPTIONS == <<10, 25, 50, 100>>
PageSizeChoices ==
  {PAGE_SIZE_OPTIONS[i] : i \in 1..Min(NumPageSizes, Len(PAGE_SIZE_OPTIONS))}

initialPage == 1
initialPageSize == 10
limit == 20

\* Metadata the collaborator may hold for one record of "notes".
SampleMetadatas ==
  { JObj(<<Member("t", JStr("x"))>>),
    JObj(<<Member("t", JNum(1))>>),
    JObj(<<Member("t", JArr(<<JStr("a")>>))>>),
    JObj(<<Member("u", JBool(TRUE)), Member("t", JStr("x"))>>),
    JNull }

\* Longer contents of "notes": more than 5 values under one key, with and
\* without repetitions.
LongSamples ==
  { [i \in 1..7 |-> JObj(<<Member("n", JNum(i))>>)],
    [i \in 1..7 |-> JObj(<<Member("n", JNum((i + 1) \div 2))>>)],
    [i \in 1..6 |-> JObj(<<Member("n", JArr(<<JNum(1)>>))>>)] }

\* The contents of "notes" the metadata route is run on.
SampledSequences ==
  UNION {[1..n -> SampleMetadatas] : n \in 0..MaxSamples} \cup LongSamples

\* Values typed into the filter editor.
EditorValues == {<<"4", "2">>, <<"a", ",", " ", "b">>}
EditorOperators == {"$eq", "$in"}

\* Values typed into the filter editor when its parsing is exercised on its
\* own: numbers, padded numbers, words, lists, and a hexadecimal literal.
ParseInputs ==
  { <<"4", "2">>, <<" ", "4", "2", " ">>, <<"a", "b", "c">>,
    <<"a", ",", " ", "b", ",", " ", "c">>, <<" ", "a", " ">>,
    <<"0", "x", "1", "0">>, <<"7", ",", "8">> }

\* Search-bar inputs.
SearchInputs == {<<"c", "a", "t">>, <<" ", "d", "o", "g">>}
SearchModes == {"text", "semantic"}

\* Texts typed into the raw-JSON editor.
Pred(field, operator, valueToks) ==
  <<TLBrace, TStr(field), TColon, TLBrace, TStr(operator), TColon>>
    \o valueToks \o <<TRBrace, TRBrace>>

And(members) ==
  <<TLBrace, TStr("$and"), TColon, TLBrack>> \o members \o <<TRBrack, TRBrace>>

\* Texts JSON.parse rejects: a truncated object, an unquoted key, a stray
\* closing brace after the value.
MalformedTexts ==
  { <<TLBrace, TStr("type"), TColon>>,
    <<TLBrace, TBad, TColon, TNum(1), TRBrace>>,
    Pred("type", "$eq", <<TStr("text")>>) \o <<TRBrace>> }

\* Well-formed clauses outside the filter-chip form: an unsupported operator,
\* a nested $or group, two operators on one field, and a conjunction with an
\* unsupported member.
UnrecognisedTexts ==
  { Pred("year", "$gte", <<TNum(2000)>>),
    <<TLBrace, TStr("$or"), TColon, TLBrack>>
      \o Pred("type", "$eq", <<TStr("text")>>) \o <<TComma>>
      \o Pred("year", "$eq", <<TNum(1)>>) \o <<TRBrack, TRBrace>>,
    <<TLBrace, TStr("year"), TColon, TLBrace, TStr("$gt"), TColon, TNum(1),
      TComma, TStr("$lt"), TColon, TNum(9), TRBrace, TRBrace>>,
    And(Pred("type", "$eq", <<TStr("text")>>) \o <<TComma>>
        \o Pred("year", "$gte", <<TNum(2000)>>)) }

AdvancedTexts ==
  { <<>>,
    Pred("type", "$eq", <<TStr("text")>>),
    And(Pred("type", "$in", <<TLBrack, TStr("a"), TComma, TStr("b"), TRBrack>>)
        \o <<TComma>> \o Pred("type", "$ne", <<TNum(7)>>)),
    <<TNum(42)>>,
    Pred("type", "$eq", <<TLBrack, TStr("a"), TRBrack>>) }
  \cup MalformedTexts \cup UnrecognisedTexts

(***************************************************************************)
(* State of the Home page and of the hooks it composes.                    *)
(***************************************************************************)
VARIABLES
  connection,          \* useConnection: NULL or Some(connection)
  selectedCollection,  \* Home: "" until a collection is chosen
  filters, nextId,     \* useFilters; nextId feeds generateId
  advancedError,       \* AdvancedFilter: error
  metadataFields, metadataIsLoading, metadataError, metadataInFlight,
  records, total, page, pageSize, isLoading, recordsError,
  recordsInFlight,     \* browse requests awaiting their response, oldest first
  recordsLast,         \* the browse request issued most recently
  results, distances, isSearching, searchError, searchQuery, searchType,
  searchInFlight,
  recordsLastBy        \* the operation that issued recordsLast

filterVars == <<filters, nextId, advancedError>>
metadataVars ==
  <<metadataFields, metadataIsLoading, metadataError, metadataInFlight>>
recordsVars ==
  <<records, total, page, pageSize, isLoading, recordsError, recordsInFlight,
    recordsLast, recordsLastBy>>
searchVars ==
  <<results, distances, isSearching, searchError, searchQuery, searchType,
    searchInFlight>>
vars ==
  <<connection, chromaMetadatas, selectedCollection, filterVars, metadataVars, recordsVars,
    searchVars>>

\* Values Home derives on every render.
whereClause == filtersToWhereClause(filters)
isSearchActive == searchQuery # NULL
isConnected == connection # NULL
displayData == IF isSearchActive THEN results ELSE records
displayError == IF isSearchActive THEN searchError ELSE recordsError

\* Math.ceil(a / b) for a >= 0 and b > 0
ceil(a, b) == (a + b - 1) \div b

\* Math.ceil(total / pageSize)
totalPages == ceil(total, pageSize)

Init ==
  /\ connection \in {NULL, Some([host |-> "localhost", port |-> 8000])}
  /\ chromaMetadatas = SeededCollections
  /\ selectedCollection = ""
  /\ filters = <<>>
  /\ nextId = 1
  /\ advancedError = NULL
  /\ metadataFields = <<>>
  /\ metadataIsLoading = FALSE
  /\ metadataError = NULL
  /\ metadataInFlight = <<>>
  /\ records = <<>>
  /\ total = 0
  /\ page = initialPage
  /\ pageSize = initialPageSize
  /\ isLoading = FALSE
  /\ recordsError = NULL
  /\ recordsInFlight = <<>>
  /\ recordsLast = NULL
  /\ results = <<>>
  /\ distances = <<>>
  /\ isSearching = FALSE
  /\ searchError = NULL
  /\ searchQuery = NULL
  /\ searchType = NULL
  /\ searchInFlight = <<>>
  /\ recordsLastBy = "mount"

(***************************************************************************)
(* useRecords                                                              *)
(***************************************************************************)
recordsSlice ==
  [records |-> records, total |-> total, isLoading |-> isLoading,
   error |-> recordsError, inFlight |-> recordsInFlight, last |-> recordsLast]

\* The request fetchRecords builds.  The URL carries collection, page and
\* pageSize; `where` is the where parameter of the URL (absent: JNull) and
\* `whereOption` the where option Home handed to the hook in that render.
RecordsRequest(c, pg, ps, whereOption) ==
  [collection |-> c, page |-> pg, pageSize |-> ps, where |-> JNull,
   whereOption |-> whereOption]

\* fetchRecords up to its await, run in a render with the given values.
fetchRecords(b, c, pg, ps, whereOption) ==
  IF c = "" \/ connection = NULL
  THEN [b EXCEPT !.records = <<>>, !.total = 0]
  ELSE [b EXCEPT !.isLoading = TRUE, !.error = NULL,
                 !.inFlight = Append(@, RecordsRequest(c, pg, ps, whereOption)),
                 !.last = Some(RecordsRequest(c, pg, ps, whereOption))]

\* A catch block that reports the error but keeps the records it held.
applyRecordsResponse_keepsRecords(b, req, ok) ==
  IF ok
  THEN [b EXCEPT !.records = RecordsGET(req).records,
                 !.total = RecordsGET(req).total,
                 !.isLoading = FALSE]
  ELSE [b EXCEPT !.error = Some("Failed to fetch records"),
                 !.isLoading = FALSE]

\* fetchRecords after its await: the response of a request is applied.
applyRecordsResponse(b, req, ok) ==
  IF ok
  THEN [b EXCEPT !.records = RecordsGET(req).records,
                 !.total = RecordsGET(req).total,
                 !.isLoading = FALSE]
  ELSE [b EXCEPT !.error = Some("Failed to fetch records"),
                 !.records = <<>>, !.total = 0, !.isLoading = FALSE]

RemoveAt(seq, i) == SubSeq(seq, 1, i - 1) \o SubSeq(seq, i + 1, Len(seq))

commitRecords(b) ==
  /\ records' = b.records
  /\ total' = b.total
  /\ isLoading' = b.isLoading
  /\ recordsError' = b.error
  /\ recordsInFlight' = b.inFlight
  /\ recordsLast' = b.last

\* setPage(newPage) and the fetch effect of the render it causes.
handleSetPage(newPage, op) ==
  /\ newPage # page
  /\ Len(recordsInFlight) < MaxInFlight
  /\ page' = newPage
  /\ commitRecords(fetchRecords(recordsSlice, selectedCollection, newPage,
                                pageSize, whereClause))
  /\ recordsLastBy' = op
  /\ UNCHANGED <<connection, chromaMetadatas, selectedCollection, pageSize, filterVars,
                 metadataVars, searchVars>>

\* Pagination buttons (rendered while no search is active).
PaginationPrevious ==
  /\ isConnected /\ selectedCollection # "" /\ ~isSearchActive
  /\ page > 1
  /\ handleSetPage(page - 1, "setPage")

PaginationNext ==
  /\ isConnected /\ selectedCollection # "" /\ ~isSearchActive
  /\ page < totalPages
  /\ handleSetPage(page + 1, "setPage")

\* A previous-page shortcut that does not look at the page.
handlePreviousPage_anyPage ==
  /\ isConnected
  /\ ~isSearchActive
  /\ handleSetPage(page - 1, "setPage")

\* Arrow-key shortcuts.
handlePreviousPage ==
  /\ isConnected
  /\ page > 1 /\ ~isSearchActive
  /\ handleSetPage(page - 1, "setPage")

\* A next-page shortcut that does not look at the active source.
handleNextPage_anySource ==
  /\ isConnected
  /\ page < totalPages
  /\ handleSetPage(page + 1, "setPage")

handleNextPage ==
  /\ isConnected
  /\ page < totalPages /\ ~isSearchActive
  /\ handleSetPage(page + 1, "setPage")

\* setPageSize(newPageSize): the fetch effect runs with the page of that
\* render, the reset effect sets page to 1, and the fetch effect runs again
\* if that changed the page.
handleSetPageSize(newPageSize) ==
  /\ isConnected /\ selectedCollection # "" /\ ~isSearchActive
  /\ newPageSize # pageSize
  /\ Len(recordsInFlight) + (IF page # 1 THEN 2 ELSE 1) <= MaxInFlight
  /\ pageSize' = newPageSize
  /\ page' = 1
  /\ LET b1 == fetchRecords(recordsSlice, selectedCollection, page,
                            newPageSize, whereClause)
         b2 == IF page # 1
               THEN fetchRecords(b1, selectedCollection, 1, newPageSize,
                                 whereClause)
               ELSE b1
     IN commitRecords(b2)
  /\ recordsLastBy' = "setPageSize"
  /\ UNCHANGED <<connection, chromaMetadatas, selectedCollection, filterVars, metadataVars,
                 searchVars>>

\* A response to browse request i arrives.
RecordsResponse(i, ok) ==
  /\ i \in 1..Len(recordsInFlight)
  /\ commitRecords(applyRecordsResponse(
       [recordsSlice EXCEPT !.inFlight = RemoveAt(@, i)],
       recordsInFlight[i], ok))
  /\ UNCHANGED <<connection, chromaMetadatas, selectedCollection, page, pageSize,
                 recordsLastBy, filterVars, metadataVars, searchVars>>

(***************************************************************************)
(* useMetadata                                                             *)
(***************************************************************************)
metadataSlice ==
  [fields |-> metadataFields, isLoading |-> metadataIsLoading,
   error |-> metadataError, inFlight |-> metadataInFlight]

fetchMetadata(m, c) ==
  IF c = "" \/ connection = NULL
  THEN [m EXCEPT !.fields = <<>>]
  ELSE [m EXCEPT !.isLoading = TRUE, !.error = NULL,
                 !.inFlight = Append(@, [collection |-> c])]

\* A fetchMetadata without the finally block: a failure leaves the busy flag.
applyMetadataResponse_staysBusy(m, req, ok) ==
  IF ok
  THEN [m EXCEPT !.fields = MetadataGET(req.collection), !.isLoading = FALSE]
  ELSE [m EXCEPT !.error = Some("Failed to fetch metadata"), !.fields = <<>>]

applyMetadataResponse(m, req, ok) ==
  IF ok
  THEN [m EXCEPT !.fields = MetadataGET(req.collection), !.isLoading = FALSE]
  ELSE [m EXCEPT !.error = Some("Failed to fetch metadata"),
                 !.fields = <<>>, !.isLoading = FALSE]

commitMetadata(m) ==
  /\ metadataFields' = m.fields
  /\ metadataIsLoading' = m.isLoading
  /\ metadataError' = m.error
  /\ metadataInFlight' = m.inFlight

MetadataResponse(i, ok) ==
  /\ i \in 1..Len(metadataInFlight)
  /\ commitMetadata(applyMetadataResponse(
       [metadataSlice EXCEPT !.inFlight = RemoveAt(@, i)],
       metadataInFlight[i], ok))
  /\ UNCHANGED <<connection, chromaMetadatas, selectedCollection, filterVars, recordsVars,
                 searchVars>>

(***************************************************************************)
(* useSearch                                                               *)
(***************************************************************************)
\* The request body search builds; `where` is the where member of the body
\* (absent: JNull) and `whereClause` is Home's where clause in that render.
SearchRequest(c, query, type) ==
  [collection |-> c, query |-> query, type |-> type, limit |-> limit,
   where |-> JNull, whereClause |-> whereClause]

\* A search whose validation failures also drop the results held.
search_rejectionClears(query, type) ==
  /\ IF selectedCollection = "" \/ connection = NULL
     THEN /\ searchError' = Some("No collection or connection available")
          /\ results' = <<>>
          /\ distances' = <<>>
          /\ UNCHANGED <<isSearching, searchQuery, searchType, searchInFlight>>
     ELSE IF trim(query) = <<>>
     THEN /\ searchError' = Some("Search query cannot be empty")
          /\ results' = <<>>
          /\ distances' = <<>>
          /\ UNCHANGED <<isSearching, searchQuery, searchType, searchInFlight>>
     ELSE /\ Len(searchInFlight) < MaxInFlight
          /\ isSearching' = TRUE
          /\ searchError' = NULL
          /\ searchQuery' = Some(query)
          /\ searchType' = Some(type)
          /\ searchInFlight' =
               Append(searchInFlight,
                      SearchRequest(selectedCollection, query, type))
          /\ UNCHANGED <<results, distances>>
  /\ UNCHANGED <<connection, chromaMetadatas, selectedCollection, filterVars,
                 metadataVars, recordsVars>>

\* A search that stores the query text only with the response, never before.
search_queryNotStored(query, type) ==
  /\ IF selectedCollection = "" \/ connection = NULL
     THEN /\ searchError' = Some("No collection or connection available")
          /\ UNCHANGED <<results, distances, isSearching, searchQuery,
                         searchType, searchInFlight>>
     ELSE IF trim(query) = <<>>
     THEN /\ searchError' = Some("Search query cannot be empty")
          /\ UNCHANGED <<results, distances, isSearching, searchQuery,
                         searchType, searchInFlight>>
     ELSE /\ Len(searchInFlight) < MaxInFlight
          /\ isSearching' = TRUE
          /\ searchError' = NULL
          /\ searchType' = Some(type)
          /\ searchInFlight' =
               Append(searchInFlight,
                      SearchRequest(selectedCollection, query, type))
          /\ UNCHANGED <<results, distances, searchQuery>>
  /\ UNCHANGED <<connection, chromaMetadatas, selectedCollection, filterVars, metadataVars,
                 recordsVars>>

\* search(query, type) up to its await.
search(query, type) ==
  /\ IF selectedCollection = "" \/ connection = NULL
     THEN /\ searchError' = Some("No collection or connection available")
          /\ UNCHANGED <<results, distances, isSearching, searchQuery,
                         searchType, searchInFlight>>
     ELSE IF trim(query) = <<>>
     THEN /\ searchError' = Some("Search query cannot be empty")
          /\ UNCHANGED <<results, distances, isSearching, searchQuery,
                         searchType, searchInFlight>>
     ELSE /\ Len(searchInFlight) < MaxInFlight
          /\ isSearching' = TRUE
          /\ searchError' = NULL
          /\ searchQuery' = Some(query)
          /\ searchType' = Some(type)
          /\ searchInFlight' =
               Append(searchInFlight,
                      SearchRequest(selectedCollection, query, type))
          /\ UNCHANGED <<results, distances>>
  /\ UNCHANGED <<connection, chromaMetadatas, selectedCollection, filterVars, metadataVars,
                 recordsVars>>

\* SearchBar: the Search button or Enter.
handleSearch(query, mode) ==
  /\ isConnected /\ selectedCollection # ""
  /\ ~isSearching
  /\ trim(query) # <<>>
  /\ search(trim(query), mode)

\* The Find Similar row action on a displayed record.
handleFindSimilar(i) ==
  /\ isConnected /\ selectedCollection # ""
  /\ ~isLoading /\ ~isSearching
  /\ i \in 1..Len(displayData)
  /\ displayData[i].document # NULL
  /\ displayData[i].document # Some(<<>>)
  /\ search(displayData[i].document[1], "semantic")

\* A response to search request i arrives.
SearchResponse(i, ok) ==
  /\ i \in 1..Len(searchInFlight)
  /\ searchInFlight' = RemoveAt(searchInFlight, i)
  /\ IF ok
     THEN /\ results' = SearchPOST(searchInFlight[i]).results
          /\ distances' = SearchPOST(searchInFlight[i]).distances
          /\ UNCHANGED searchError
     ELSE /\ searchError' = Some("Search failed")
          /\ results' = <<>>
          /\ distances' = <<>>
  /\ isSearching' = FALSE
  /\ UNCHANGED <<connection, chromaMetadatas, selectedCollection, filterVars, metadataVars,
                 recordsVars, searchQuery, searchType>>

\* A clearSearch that leaves the query text in place.
clearSearch_keepsQuery ==
  /\ results' = <<>>
  /\ distances' = <<>>
  /\ searchError' = NULL
  /\ UNCHANGED <<searchQuery, searchType, isSearching, searchInFlight>>

\* A clearSearch that leaves the error of the last search in place.
clearSearch_keepsError ==
  /\ results' = <<>>
  /\ distances' = <<>>
  /\ searchQuery' = NULL
  /\ searchType' = NULL
  /\ UNCHANGED <<searchError, isSearching, searchInFlight>>

\* clearSearch()
clearSearch ==
  /\ results' = <<>>
  /\ distances' = <<>>
  /\ searchQuery' = NULL
  /\ searchType' = NULL
  /\ searchError' = NULL
  /\ UNCHANGED <<isSearching, searchInFlight>>

\* SearchBar's clear button and the "Clear search" button.
handleClear ==
  /\ isConnected /\ selectedCollection # ""
  /\ clearSearch
  /\ UNCHANGED <<connection, chromaMetadatas, selectedCollection, filterVars, metadataVars,
                 recordsVars>>

\* Escape: clearSearch() and clearFilters().
handleClearAll ==
  /\ isConnected
  /\ clearSearch
  /\ filters' = <<>>
  /\ UNCHANGED <<connection, chromaMetadatas, selectedCollection, nextId, advancedError,
                 metadataVars, recordsVars>>

(***************************************************************************)
(* Home: choosing a collection.  The effects of the render run in hook     *)
(* order: the metadata fetch, the browse fetch, the page reset, then       *)
(* clearSearch and clearFilters; the browse fetch runs again if the page   *)
(* changed.                                                                *)
(***************************************************************************)
\* A collection switch whose effect forgets clearSearch().
setSelectedCollection_keepsSearch(c) ==
  /\ isConnected
  /\ c \in Collections
  /\ c # selectedCollection
  /\ Len(metadataInFlight) < MaxInFlight
  /\ Len(recordsInFlight) + (IF page # 1 THEN 2 ELSE 1) <= MaxInFlight
  /\ selectedCollection' = c
  /\ commitMetadata(fetchMetadata(metadataSlice, c))
  /\ LET b1 == fetchRecords(recordsSlice, c, page, pageSize, whereClause)
         b2 == IF page # 1
               THEN fetchRecords(b1, c, 1, pageSize, filtersToWhereClause(<<>>))
               ELSE b1
     IN commitRecords(b2)
  /\ page' = 1
  /\ filters' = <<>>
  /\ recordsLastBy' = "switchCollection"
  /\ UNCHANGED <<connection, chromaMetadatas, pageSize, nextId, advancedError, searchVars>>

setSelectedCollection(c) ==
  /\ isConnected
  /\ c \in Collections
  /\ c # selectedCollection
  /\ Len(metadataInFlight) < MaxInFlight
  /\ Len(recordsInFlight) + (IF page # 1 THEN 2 ELSE 1) <= MaxInFlight
  /\ selectedCollection' = c
  /\ commitMetadata(fetchMetadata(metadataSlice, c))
  /\ LET b1 == fetchRecords(recordsSlice, c, page, pageSize, whereClause)
         b2 == IF page # 1
               THEN fetchRecords(b1, c, 1, pageSize, filtersToWhereClause(<<>>))
               ELSE b1
     IN commitRecords(b2)
  /\ page' = 1
  /\ clearSearch
  /\ filters' = <<>>
  /\ recordsLastBy' = "switchCollection"
  /\ UNCHANGED <<connection, chromaMetadatas, pageSize, nextId, advancedError>>

(***************************************************************************)
(* useFilters, driven by the filter bar.                                   *)
(***************************************************************************)
generateId == nextId

FieldNames == {metadataFields[i].name : i \in 1..Len(metadataFields)}

\* FilterEditor.handleApply: the filter handed to onApply.
editorFilter(field, operator, value) ==
  [field |-> field, operator |-> operator, value |-> parseValue(value, operator)]

addFilter(filter) ==
  /\ nextId <= MaxIds
  /\ filters' = Append(filters, [id |-> generateId, field |-> filter.field,
                                 operator |-> filter.operator,
                                 value |-> filter.value])
  /\ nextId' = nextId + 1

updateFilter(id, updates) ==
  /\ filters' = [i \in 1..Len(filters) |->
                   IF filters[i].id = id
                   THEN [id |-> id, field |-> updates.field,
                         operator |-> updates.operator, value |-> updates.value]
                   ELSE filters[i]]
  /\ UNCHANGED nextId

RECURSIVE Without(_, _)
Without(fs, id) ==
  IF Len(fs) = 0 THEN <<>>
  ELSE IF Head(fs).id = id THEN Without(Tail(fs), id)
  ELSE <<Head(fs)>> \o Without(Tail(fs), id)

removeFilter(id) ==
  /\ filters' = Without(filters, id)
  /\ UNCHANGED nextId

clearFilters ==
  /\ filters' = <<>>
  /\ UNCHANGED nextId

\* An Add Filter popover that also empties the displayed search results.
handleAddFilter_dropsResults(field, operator, value) ==
  /\ isConnected /\ selectedCollection # ""
  /\ Len(metadataFields) # 0
  /\ field \in FieldNames
  /\ trim(value) # <<>>
  /\ addFilter(editorFilter(field, operator, value))
  /\ results' = <<>>
  /\ distances' = <<>>
  /\ UNCHANGED <<connection, chromaMetadatas, selectedCollection, advancedError, metadataVars,
                 recordsVars, isSearching, searchError, searchQuery,
                 searchType, searchInFlight>>

\* The Add Filter popover.
handleAddFilter(field, operator, value) ==
  /\ isConnected /\ selectedCollection # ""
  /\ Len(metadataFields) # 0
  /\ field \in FieldNames
  /\ trim(value) # <<>>
  /\ addFilter(editorFilter(field, operator, value))
  /\ UNCHANGED <<connection, chromaMetadatas, selectedCollection, advancedError, metadataVars,
                 recordsVars, searchVars>>

\* The popover of an existing filter chip.
handleUpdateFilter(i, field, operator, value) ==
  /\ isConnected /\ selectedCollection # ""
  /\ i \in 1..Len(filters)
  /\ field \in FieldNames \cup {filters[i].field}
  /\ trim(value) # <<>>
  /\ updateFilter(filters[i].id, editorFilter(field, operator, value))
  /\ UNCHANGED <<connection, chromaMetadatas, selectedCollection, advancedError, metadataVars,
                 recordsVars, searchVars>>

\* The X of a filter chip.
onRemove(i) ==
  /\ isConnected /\ selectedCollection # ""
  /\ i \in 1..Len(filters)
  /\ removeFilter(filters[i].id)
  /\ UNCHANGED <<connection, chromaMetadatas, selectedCollection, advancedError, metadataVars,
                 recordsVars, searchVars>>

\* The Clear all button.
onClearFilters ==
  /\ isConnected /\ selectedCollection # ""
  /\ Len(filters) > 0
  /\ clearFilters
  /\ UNCHANGED <<connection, chromaMetadatas, selectedCollection, advancedError, metadataVars,
                 recordsVars, searchVars>>

(***************************************************************************)
(* AdvancedFilter: the raw-JSON editor.                                    *)
(***************************************************************************)
\* handleBlur: the error the textarea's blur leaves.
handleBlur(jsonValue) ==
  IF jsonValue = <<>> THEN NULL
  ELSE IF JSONparse(jsonValue).ok THEN NULL
  ELSE Some("Invalid JSON")

\* handleApply: what onApply commits and the error the dialog shows.
\* applied = FALSE when nothing reaches setFilters.
handleApply(jsonValue, firstId) ==
  IF jsonValue = <<>>
  THEN [applied |-> TRUE, filters |-> <<>>, error |-> NULL]
  ELSE IF ~JSONparse(jsonValue).ok
  THEN [applied |-> FALSE, filters |-> <<>>, error |-> Some("Invalid JSON")]
  ELSE LET r == setFiltersFromWhereResult(JSONparse(jsonValue).v, firstId) IN
       IF r.threw
       THEN [applied |-> FALSE, filters |-> <<>>, error |-> Some("TypeError")]
       ELSE [applied |-> TRUE, filters |-> r.filters, error |-> NULL]

\* The user opens the dialog, types jsonValue and presses Apply.  Leaving the
\* textarea runs handleBlur; an error disables the Apply button.
applyAdvanced(jsonValue) ==
  /\ isConnected /\ selectedCollection # ""
  /\ LET r == handleApply(jsonValue, nextId) IN
     /\ nextId + Len(r.filters) <= MaxIds + 1
     /\ IF handleBlur(jsonValue) # NULL
        THEN /\ advancedError' = handleBlur(jsonValue)
             /\ UNCHANGED <<filters, nextId>>
        ELSE IF r.applied
        THEN /\ filters' = r.filters
             /\ nextId' = nextId + Len(r.filters)
             /\ advancedError' = NULL
        ELSE /\ advancedError' = r.error
             /\ UNCHANGED <<filters, nextId>>
  /\ UNCHANGED <<connection, chromaMetadatas, selectedCollection, metadataVars, recordsVars,
                 searchVars>>

(***************************************************************************)
(* The program: every operation of the page, in any interleaving with the  *)
(* responses.                                                              *)
(***************************************************************************)
Response ==
  \/ \E i \in 1..MaxInFlight, ok \in BOOLEAN : RecordsResponse(i, ok)
  \/ \E i \in 1..MaxInFlight, ok \in BOOLEAN : MetadataResponse(i, ok)
  \/ \E i \in 1..MaxInFlight, ok \in BOOLEAN : SearchResponse(i, ok)

BrowseOp ==
  \/ \E c \in Collections : setSelectedCollection(c)
  \/ PaginationPrevious
  \/ PaginationNext
  \/ handlePreviousPage
  \/ handleNextPage
  \/ \E n \in PageSizeChoices : handleSetPageSize(n)

SearchOp ==
  \/ \E q \in SearchInputs, m \in SearchModes : handleSearch(q, m)
  \/ \E i \in 1..limit : handleFindSimilar(i)
  \/ handleClear
  \/ handleClearAll

FilterOp ==
  \/ \E f \in FieldNames, o \in EditorOperators, v \in EditorValues :
       handleAddFilter(f, o, v)
  \/ \E i \in 1..MaxIds, f \in FieldNames, o \in EditorOperators,
        v \in EditorValues : handleUpdateFilter(i, f, o, v)
  \/ \E i \in 1..MaxIds : onRemove(i)
  \/ onClearFilters
  \/ \E text \in AdvancedTexts : applyAdvanced(text)

Next == BrowseOp \/ SearchOp \/ FilterOp \/ Response

Spec == Init /\ [][Next]_vars

(***************************************************************************)
(* The browse slice on its own: the user only switches collections, pages  *)
(* and changes the page size.                                              *)
(***************************************************************************)
NextBrowse ==
  \/ BrowseOp
  \/ \E i \in 1..MaxInFlight, ok \in BOOLEAN : RecordsResponse(i, ok)
  \/ \E i \in 1..MaxInFlight, ok \in BOOLEAN : MetadataResponse(i, ok)

SpecBrowse == Init /\ [][NextBrowse]_vars

(***************************************************************************)
(* A user who waits for the outstanding responses before the next          *)
(* operation, except for clearing, which happens at any time; adds filters *)
(* of one kind and searches for one text.                                  *)
(***************************************************************************)
Idle ==
  /\ recordsInFlight = <<>>
  /\ metadataInFlight = <<>>
  /\ searchInFlight = <<>>

NextSequential ==
  \/ Idle /\ BrowseOp
  \/ Idle /\ \E m \in SearchModes : handleSearch(<<" ", "c", "a", "t">>, m)
  \/ Idle /\ \E i \in 1..limit : handleFindSimilar(i)
  \/ handleClear
  \/ handleClearAll
  \/ Idle /\ handleAddFilter("year", "$eq", <<"4", "2">>)
  \/ Idle /\ \E i \in 1..MaxIds : onRemove(i)
  \/ Response

SpecSequential == Init /\ [][NextSequential]_vars

(***************************************************************************)
(* The filter bar in use on a loaded collection: "notes" is selected, its   *)
(* metadata fields and first page have arrived, and the user only edits    *)
(* filters.                                                                *)
(***************************************************************************)
InitFilters ==
  /\ connection = Some([host |-> "localhost", port |-> 8000])
  /\ chromaMetadatas = SeededCollections
  /\ selectedCollection = "notes"
  /\ filters = <<>>
  /\ nextId = 1
  /\ advancedError = NULL
  /\ metadataFields = MetadataGET("notes")
  /\ metadataIsLoading = FALSE
  /\ metadataError = NULL
  /\ metadataInFlight = <<>>
  /\ records = RecordsGET(RecordsRequest("notes", 1, 10, JNull)).records
  /\ total = CollectionCount("notes")
  /\ page = 1
  /\ pageSize = 10
  /\ isLoading = FALSE
  /\ recordsError = NULL
  /\ recordsInFlight = <<>>
  /\ recordsLast = Some(RecordsRequest("notes", 1, 10, JNull))
  /\ recordsLastBy = "switchCollection"
  /\ results = <<>>
  /\ distances = <<>>
  /\ isSearching = FALSE
  /\ searchError = NULL
  /\ searchQuery = NULL
  /\ searchType = NULL
  /\ searchInFlight = <<>>

NextFilters ==
  \/ \E f \in FieldNames, o \in {OPERATORS[k] : k \in 1..Len(OPERATORS)},
        v \in EditorValues : handleAddFilter(f, o, v)
  \/ \E i \in 1..MaxIds, f \in FieldNames,
        o \in {OPERATORS[k] : k \in 1..Len(OPERATORS)}, v \in EditorValues :
       handleUpdateFilter(i, f, o, v)
  \/ \E i \in 1..MaxIds : onRemove(i)
  \/ onClearFilters
  \/ handleClearAll
  \/ \E text \in AdvancedTexts \cup {JSONstringify(whereClause)} :
       applyAdvanced(text)

SpecFilters == InitFilters /\ [][NextFilters]_vars

(***************************************************************************)
(* The search slice next to the first browse page: the user searches and   *)
(* clears in any interleaving with the responses, and switches collections *)
(* once the metadata response of the last switch has arrived (browse and   *)
(* search responses may still be outstanding then).                       *)
(***************************************************************************)
NextSearch ==
  \/ /\ metadataInFlight = <<>>
     /\ \E c \in Collections : setSelectedCollection(c)
  \/ SearchOp
  \/ Response

SpecSearch == Init /\ [][NextSearch]_vars

(***************************************************************************)
(* The filter editor on a loaded collection: the user adds filters on the  *)
(* field "type" with every operator and removes them.                      *)
(***************************************************************************)
NextEditor ==
  \/ \E o \in {OPERATORS[k] : k \in 1..Len(OPERATORS)}, v \in ParseInputs :
       handleAddFilter("type", o, v)
  \/ \E i \in 1..MaxIds : onRemove(i)

SpecEditor == InitFilters /\ [][NextEditor]_vars

(***************************************************************************)
(* The filter bar in use while a search is active: "notes" is loaded and   *)
(* the text search for "cat" has returned its results; the user edits      *)
(* filters or presses Escape.                                              *)
(***************************************************************************)
InitSearchActive ==
  /\ connection = Some([host |-> "localhost", port |-> 8000])
  /\ chromaMetadatas = SeededCollections
  /\ selectedCollection = "notes"
  /\ filters = <<>>
  /\ nextId = 1
  /\ advancedError = NULL
  /\ metadataFields = MetadataGET("notes")
  /\ metadataIsLoading = FALSE
  /\ metadataError = NULL
  /\ metadataInFlight = <<>>
  /\ records = RecordsGET(RecordsRequest("notes", 1, 10, JNull)).records
  /\ total = CollectionCount("notes")
  /\ page = 1
  /\ pageSize = 10
  /\ isLoading = FALSE
  /\ recordsError = NULL
  /\ recordsInFlight = <<>>
  /\ recordsLast = Some(RecordsRequest("notes", 1, 10, JNull))
  /\ recordsLastBy = "switchCollection"
  /\ results = SearchPOST(SearchRequest("notes", <<"c", "a", "t">>, "text")).results
  /\ distances = <<>>
  /\ isSearching = FALSE
  /\ searchError = NULL
  /\ searchQuery = Some(<<"c", "a", "t">>)
  /\ searchType = Some("text")
  /\ searchInFlight = <<>>

SpecFilterSearch == InitSearchActive /\ [][NextFilters]_vars

(***************************************************************************)
(* Paging: the user selects a collection whenever nothing is in flight and *)
(* pages, by button or shortcut, and changes the page size in any          *)
(* interleaving with the responses.                                        *)
(***************************************************************************)
NextPaging ==
  \/ Idle /\ \E c \in Collections : setSelectedCollection(c)
  \/ PaginationPrevious
  \/ PaginationNext
  \/ handlePreviousPage
  \/ handleNextPage
  \/ \E n \in PageSizeChoices : handleSetPageSize(n)
  \/ \E i \in 1..MaxInFlight, ok \in BOOLEAN : RecordsResponse(i, ok)
  \/ \E i \in 1..MaxInFlight, ok \in BOOLEAN : MetadataResponse(i, ok)

SpecPaging == Init /\ [][NextPaging]_vars

(***************************************************************************)
(* The metadata route on varying collection contents: "notes" holds any of *)
(* the sampled sequences; the user selects it whenever nothing is in       *)
(* flight and the responses arrive.                                        *)
(***************************************************************************)
InitMetadata ==
  /\ connection = Some([host |-> "localhost", port |-> 8000])
  /\ \E metadatas \in SampledSequences :
       chromaMetadatas = [SeededCollections EXCEPT !["notes"] = metadatas]
  /\ selectedCollection = ""
  /\ filters = <<>>
  /\ nextId = 1
  /\ advancedError = NULL
  /\ metadataFields = <<>>
  /\ metadataIsLoading = FALSE
  /\ metadataError = NULL
  /\ metadataInFlight = <<>>
  /\ records = <<>>
  /\ total = 0
  /\ page = initialPage
  /\ pageSize = initialPageSize
  /\ isLoading = FALSE
  /\ recordsError = NULL
  /\ recordsInFlight = <<>>
  /\ recordsLast = NULL
  /\ recordsLastBy = "init"
  /\ results = <<>>
  /\ distances = <<>>
  /\ isSearching = FALSE
  /\ searchError = NULL
  /\ searchQuery = NULL
  /\ searchType = NULL
  /\ searchInFlight = <<>>

NextMetadata ==
  \/ Idle /\ setSelectedCollection("notes")
  \/ \E i \in 1..MaxInFlight, ok \in BOOLEAN : MetadataResponse(i, ok)
  \/ \E i \in 1..MaxInFlight, ok \in BOOLEAN : RecordsResponse(i, ok)

SpecMetadata == InitMetadata /\ [][NextMetadata]_vars

(***************************************************************************)
(* The three fetching slices on "notes" with a collaborator that answers:  *)
(* the user selects the collection, changes the page size and searches for *)
(* "cat" while responses are outstanding, and a request that stays         *)
(* outstanding is eventually answered, with a response or a failure.       *)
(***************************************************************************)
NextFetch ==
  \/ metadataInFlight = <<>> /\ setSelectedCollection("notes")
  \/ \E n \in PageSizeChoices : handleSetPageSize(n)
  \/ \E m \in SearchModes : handleSearch(<<"c", "a", "t">>, m)
  \/ Response

SpecFetch ==
  /\ Init
  /\ [][NextFetch]_vars
  /\ WF_vars(\E i \in 1..MaxInFlight, ok \in BOOLEAN : RecordsResponse(i, ok))
  /\ WF_vars(\E i \in 1..MaxInFlight, ok \in BOOLEAN : MetadataResponse(i, ok))
  /\ WF_vars(\E i \in 1..MaxInFlight, ok \in BOOLEAN : SearchResponse(i, ok))

(***************************************************************************)
(* Properties                                                              *)
(***************************************************************************)

\* C1: the where clause compiled from the filter list is null for no filter,
\* the single predicate {field: {operator: value}} for one filter, and for two
\* or more filters an $and group holding one predicate per filter in order.
C1_CompileShape ==
  LET w == filtersToWhereClause(filters)
      n == Len(filters)
      pred(f) == [t |-> "obj",
                  o |-> <<[k |-> f.field,
                           v |-> [t |-> "obj",
                                  o |-> <<[k |-> f.operator, v |-> f.value]>>]]>>]
  IN /\ n = 0 => w = [t |-> "null"]
     /\ n = 1 => w = pred(filters[1])
     /\ n >= 2 => /\ w.t = "obj"
                  /\ Len(w.o) = 1
                  /\ w.o[1].k = "$and"
                  /\ w.o[1].v.t = "arr"
                  /\ Len(w.o[1].v.a) = n
                  /\ \A i \in 1..n : w.o[1].v.a[i] = pred(filters[i])

C1_Witness ==
  /\ Len(filters) >= 2
  /\ filters[1].operator # filters[2].operator

\* C2: decompiling the compiled where clause of the filter list gives a list
\* of the same length whose i-th filter has the field, operator and value of
\* the i-th filter (ids may differ).
C2_RoundTrip ==
  LET r == setFiltersFromWhereResult(filtersToWhereClause(filters), nextId)
  IN /\ ~r.threw
     /\ Len(r.filters) = Len(filters)
     /\ \A i \in 1..Len(filters) :
          /\ r.filters[i].field = filters[i].field
          /\ r.filters[i].operator = filters[i].operator
          /\ r.filters[i].value = filters[i].value

C2_Witness ==
  /\ Len(filters) >= 2
  /\ filters[1].field = filters[2].field
  /\ \E i \in 1..Len(filters) : filters[i].operator = "$in"

\* C3: applying a well-formed raw clause that is not in filter-chip form
\* leaves the where clause equal to the raw clause and the filter list empty.
C3_RawClausePreserved ==
  [][\A text \in UnrecognisedTexts :
       applyAdvanced(text) =>
         /\ whereClause' = JSONparse(text).v
         /\ filters' = <<>>]_vars

\* C4: every browse request and every search request in flight carries the
\* where clause compiled from the filters of the render that issued it.
C4_WhereForwarded ==
  /\ \A i \in 1..Len(recordsInFlight) :
       recordsInFlight[i].where = recordsInFlight[i].whereOption
  /\ \A i \in 1..Len(searchInFlight) :
       searchInFlight[i].where = searchInFlight[i].whereClause

\* C5: once no browse response is outstanding after a page change, the
\* records and total held are those of the request issued most recently.
C5_LatestPageWins ==
  (/\ recordsLastBy = "setPage"
   /\ recordsInFlight = <<>>
   /\ recordsError = NULL)
  => /\ records = RecordsGET(recordsLast[1]).records
     /\ total = RecordsGET(recordsLast[1]).total

\* C6: the data and error shown are those of the search slice exactly when
\* the query text is non-null and those of the browse slice otherwise; after
\* clearSearch the browse records are shown, after a search that passed
\* validation the search results are shown.
C6_Shown ==
  /\ searchQuery # NULL => displayData = results /\ displayError = searchError
  /\ searchQuery = NULL => displayData = records /\ displayError = recordsError

C7_PageSizeResets ==
  recordsLastBy = "setPageSize" =>
    /\ page = 1
    /\ (recordsInFlight = <<>> /\ recordsError = NULL) =>
         records = RecordsGET(RecordsRequest(selectedCollection, 1, pageSize,
                                             whereClause)).records

\* C8: a filter mutation that changes the filters resets the page to 1 and,
\* while browse is the active source, issues a browse fetch carrying the
\* recompiled where clause.
C8_FilterMutationRefetches ==
  [][(filters' # filters /\ selectedCollection' = selectedCollection) =>
       /\ page' = 1
       /\ searchQuery' = NULL =>
            /\ Len(recordsInFlight') = Len(recordsInFlight) + 1
            /\ recordsInFlight'[Len(recordsInFlight')].where = whereClause']_vars

\* C9: a switch to a different collection leaves the filter list empty, the
\* search cleared, the page at 1 and the page size unchanged, and issues a
\* metadata refresh for the new collection.
C9_SwitchCollection ==
  [][selectedCollection' # selectedCollection =>
       /\ filters' = <<>>
       /\ searchQuery' = NULL
       /\ results' = <<>>
       /\ distances' = <<>>
       /\ page' = 1
       /\ pageSize' = pageSize
       /\ Len(metadataInFlight') = Len(metadataInFlight) + 1
       /\ metadataInFlight'[Len(metadataInFlight')].collection =
            selectedCollection']_vars

C9_Witness ==
  /\ recordsLastBy = "switchCollection"
  /\ filters = <<>>
  /\ page = 1
  /\ Len(recordsInFlight) = 2
  /\ recordsInFlight[1].collection = selectedCollection
  /\ recordsInFlight[1].page > 1
  /\ recordsInFlight[1].whereOption # JNull
  /\ Len(metadataInFlight) = 1

\* C10: submitting a malformed text in the raw-JSON editor sets the editor's
\* error and leaves filters, where clause, browse slice and search slice as
\* they were.
C10_MalformedRejected ==
  [][\A text \in MalformedTexts :
       applyAdvanced(text) =>
         /\ advancedError' # NULL
         /\ UNCHANGED <<filters, recordsVars, searchVars>>
         /\ whereClause' = whereClause]_vars

C10_Witness ==
  /\ advancedError = Some("Invalid JSON")
  /\ Len(filters) >= 1

\* C11: a failed browse response sets the browse error and empties the browse
\* records, leaving search query, results, distances, filters and metadata
\* fields as they were; a failed search response sets the search error and
\* empties results and distances, leaving records, total, page, page size,
\* filters and metadata fields as they were; a request issued on a slice that
\* holds an error clears the error, and a response that leaves the slice
\* without error stores the data of its request.
C11_FailureIsolated ==
  [][/\ \A i \in 1..MaxInFlight :
          (Len(recordsInFlight') < Len(recordsInFlight)
             /\ RecordsResponse(i, FALSE)) =>
            /\ recordsError' # NULL
            /\ records' = <<>>
            /\ UNCHANGED <<searchQuery, results, distances, searchError,
                           filters, metadataFields>>
     /\ \A i \in 1..MaxInFlight :
          (Len(searchInFlight') < Len(searchInFlight)
             /\ SearchResponse(i, FALSE)) =>
            /\ searchError' # NULL
            /\ results' = <<>>
            /\ distances' = <<>>
            /\ UNCHANGED <<records, total, page, pageSize, recordsError,
                           filters, metadataFields>>
     /\ (recordsError # NULL /\ Len(recordsInFlight') > Len(recordsInFlight))
          => recordsError' = NULL /\ isLoading'
     /\ (searchError # NULL /\ Len(searchInFlight') > Len(searchInFlight))
          => searchError' = NULL /\ isSearching'
     /\ \A i \in 1..Len(recordsInFlight) :
          (/\ recordsInFlight' = RemoveAt(recordsInFlight, i)
           /\ recordsError = NULL
           /\ recordsError' = NULL) =>
            /\ records' = RecordsGET(recordsInFlight[i]).records
            /\ total' = RecordsGET(recordsInFlight[i]).total
     /\ \A i \in 1..Len(searchInFlight) :
          (/\ searchInFlight' = RemoveAt(searchInFlight, i)
           /\ searchError = NULL
           /\ searchError' = NULL) =>
            /\ results' = SearchPOST(searchInFlight[i]).results
            /\ distances' = SearchPOST(searchInFlight[i]).distances]_vars

C11_Witness ==
  /\ recordsError # NULL
  /\ records = <<>>
  /\ searchQuery # NULL
  /\ results # <<>>
  /\ searchError = NULL
  /\ metadataFields # <<>>

\* C12: with exactly one filter the where clause is its single predicate, and
\* the total held after a browse fetch issued under those filters is the
\* number of records of the collection that match the where clause.
C12_FilteredTotal ==
  (/\ Len(filters) = 1
   /\ recordsLast # NULL
   /\ recordsLast[1].collection = selectedCollection
   /\ recordsLast[1].whereOption = whereClause
   /\ recordsInFlight = <<>>
   /\ recordsError = NULL)
  => /\ whereClause =
          JObj(<<Member(filters[1].field,
                        JObj(<<Member(filters[1].operator,
                                      filters[1].value)>>))>>)
     /\ total = Len(MatchingIds(selectedCollection,
                                CollectionCount(selectedCollection),
                                whereClause))

\* C13: the value of a filter added through the editor is, for $in, the
\* sequence of the trimmed comma-separated segments of the trimmed input, and
\* for every other operator the number when the trimmed input is a base-10
\* number and the trimmed input as a string otherwise.
C13_ParseOperatorValue ==
  [][\A o \in {OPERATORS[k] : k \in 1..Len(OPERATORS)}, v \in ParseInputs :
       handleAddFilter("type", o, v) =>
         LET t == trim(v)
             segments == split(t)
             base10 == t # <<>> /\ \A i \in 1..Len(t) : IsDigit(t[i])
             added == filters'[Len(filters')].value
         IN IF o = "$in"
            THEN /\ added.t = "arr"
                 /\ Len(added.a) = Len(segments)
                 /\ \A i \in 1..Len(segments) :
                      added.a[i] = JStr(Str(trim(segments[i])))
            ELSE IF base10 THEN added = JNum(DecimalOf(t))
            ELSE added = JStr(Str(t))]_vars

\* C14: the distances held are empty unless the current search mode is
\* semantic.
C14_DistancesOnlySemantic ==
  searchType # Some("semantic") => distances = <<>>

\* C15: a search that passes validation stores the (trimmed) text as the query
\* text and the mode as the search mode in the step that issues the request;
\* a successful response stores the results and distances of that response
\* and leaves the query text alone; the query text changes only when a search
\* is issued or when it is cleared to null.
C15_RunSearch ==
  [][/\ \A q \in SearchInputs, m \in SearchModes :
          handleSearch(q, m) =>
            /\ searchQuery' = Some(trim(q))
            /\ searchType' = Some(m)
            /\ Len(searchInFlight') = Len(searchInFlight) + 1
            /\ searchInFlight'[Len(searchInFlight')].query = trim(q)
            /\ searchInFlight'[Len(searchInFlight')].type = m
     /\ \A i \in 1..MaxInFlight :
          SearchResponse(i, TRUE) =>
            /\ results' = SearchPOST(searchInFlight[i]).results
            /\ distances' = SearchPOST(searchInFlight[i]).distances
            /\ searchQuery' = searchQuery
     /\ searchQuery' # searchQuery =>
          \/ Len(searchInFlight') = Len(searchInFlight) + 1
          \/ searchQuery' = NULL /\ results' = <<>> /\ distances' = <<>>]_vars

C15_Witness ==
  /\ searchQuery = Some(<<"d", "o", "g">>)
  /\ searchType = Some("semantic")
  /\ searchInFlight = <<>>
  /\ ~isSearching
  /\ searchError = NULL
  /\ results =
       SearchPOST([collection |-> selectedCollection, query |-> <<"d", "o", "g">>,
                   type |-> "semantic", limit |-> limit]).results
  /\ distances # <<>>

\* C16: while a search is active (query text non-null) and the collection
\* stays the same, no step changes the page or the page size or issues a
\* browse request.
C16_SetPageOnlyWhileBrowsing ==
  [][(searchQuery # NULL /\ selectedCollection' = selectedCollection) =>
       /\ page' = page
       /\ pageSize' = pageSize
       /\ Len(recordsInFlight') <= Len(recordsInFlight)
       /\ recordsLast' = recordsLast]_vars

C16_Witness ==
  /\ searchQuery # NULL
  /\ results # <<>>
  /\ page > 1
  /\ page < totalPages
  /\ recordsInFlight = <<>>

\* C17: clearSearch sets query text and search mode to null, empties results
\* and distances and clears the search error; it leaves page, page size,
\* records, total and the filter list as they were and issues no browse
\* request.  Escape runs it together with clearFilters, which empties the
\* filter list and also leaves the browse slice alone.
C17_ClearSearchFrame ==
  [][/\ handleClear =>
          /\ searchQuery' = NULL /\ searchType' = NULL
          /\ results' = <<>> /\ distances' = <<>>
          /\ searchError' = NULL
          /\ UNCHANGED <<page, pageSize, records, total, filters,
                         recordsInFlight, recordsLast>>
     /\ handleClearAll =>
          /\ searchQuery' = NULL /\ searchType' = NULL
          /\ results' = <<>> /\ distances' = <<>>
          /\ searchError' = NULL
          /\ UNCHANGED <<page, pageSize, records, total,
                         recordsInFlight, recordsLast>>]_vars

C17_Witness ==
  /\ searchQuery = NULL
  /\ results = <<>>
  /\ Len(searchInFlight) = 1
  /\ searchInFlight[1].collection = selectedCollection
  /\ searchInFlight[1].whereClause = whereClause
  /\ filters # <<>>
  /\ page > 1
  /\ records # <<>>
  /\ recordsInFlight = <<>>

\* C18: a search response is applied only if it belongs to the search issued
\* most recently and the search has not been cleared since: with a null query
\* text results and distances are empty, and once no search response is
\* outstanding the results and distances held are those of the current query
\* text and mode on the current collection.
C18_StaleSearchDropped ==
  /\ searchQuery = NULL => results = <<>> /\ distances = <<>>
  /\ (searchQuery # NULL /\ searchInFlight = <<>> /\ searchError = NULL) =>
       LET current == [collection |-> selectedCollection,
                       query |-> searchQuery[1], type |-> searchType[1],
                       limit |-> limit]
       IN /\ results = SearchPOST(current).results
          /\ distances = SearchPOST(current).distances

\* C19: once no metadata response is outstanding after a collection switch,
\* the field list held is the one sampled from the selected collection.
C19_LatestFieldsWin ==
  (/\ selectedCollection # ""
   /\ metadataInFlight = <<>>
   /\ metadataError = NULL)
  => metadataFields = MetadataGET(selectedCollection)

\* C20: the value of every filter in the list is a sequence of strings if and
\* only if the filter's operator is $in.
C20_ValueShape ==
  \A i \in 1..Len(filters) :
    (/\ filters[i].value.t = "arr"
     /\ \A k \in 1..Len(filters[i].value.a) : filters[i].value.a[k].t = "str")
    <=> filters[i].operator = "$in"

\* C21: while a search is active, every filter mutation (add, update, remove,
\* clear, applying a raw where clause) leaves the search query, the mode, the
\* results, the distances and the search error unchanged and issues no search
\* fetch.  Escape (handleClearAll) is the clearing of the search itself and a
\* collection switch is not a filter mutation.
C21_FilterMutationKeepsSearch ==
  [][(/\ isSearchActive
      /\ filters' # filters
      /\ selectedCollection' = selectedCollection
      /\ ~handleClearAll)
     => UNCHANGED <<searchQuery, searchType, results, distances, searchError,
                    isSearching, searchInFlight>>]_vars

\* a search is active with results and the filter list holds a filter
C21_Witness ==
  /\ isSearchActive
  /\ results # <<>>
  /\ Len(filters) = 2
  /\ searchInFlight = <<>>

\* C22: once the metadata of the selected collection has been analysed, each
\* distinct key of the sampled metadata is exactly one field, and the field's
\* type is the single tag observed for the key or the " | " join of the tags
\* in order of first occurrence; sampling [{t: "x"}, {t: 1}] gives the one
\* field t of type "string | number" with the sample values "x" and 1.
C22_FieldsOfSamples ==
  (/\ selectedCollection # ""
   /\ metadataInFlight = <<>>
   /\ metadataError = NULL)
  => LET samples == chromaMetadatas[selectedCollection]
         keys == UNION {{samples[i].o[j].k : j \in 1..Len(samples[i].o)} :
                          i \in {i \in 1..Len(samples) : samples[i].t = "obj"}}
         tagOf(v) == CASE v.t = "str" -> "string"
                       [] v.t = "num" -> "number"
                       [] v.t = "bool" -> "boolean"
                       [] v.t = "arr" -> "array"
                       [] v.t = "null" -> "null"
                       [] OTHER -> "object"
         typeOf(key) ==
           LET at == {i \in 1..Len(samples) : HasKey(samples[i], key)}
               tag(i) == tagOf(GetKey(samples[i], key))
               tags == {tag(i) : i \in at}
               first(tg) == CHOOSE i \in at :
                              /\ tag(i) = tg
                              /\ \A i2 \in at : tag(i2) = tg => i <= i2
               order == CHOOSE s \in [1..Cardinality(tags) -> tags] :
                          \A a, b \in 1..Cardinality(tags) :
                            a < b => first(s[a]) < first(s[b])
               label[n \in 1..Cardinality(tags)] ==
                 IF n = 1 THEN order[1]
                 ELSE label[n - 1] \o " | " \o order[n]
           IN label[Cardinality(tags)]
     IN /\ {metadataFields[j].name : j \in 1..Len(metadataFields)} = keys
        /\ Len(metadataFields) = Cardinality(keys)
        /\ \A j \in 1..Len(metadataFields) :
             metadataFields[j].type = typeOf(metadataFields[j].name)
        /\ samples = <<JObj(<<Member("t", JStr("x"))>>),
                       JObj(<<Member("t", JNum(1))>>)>>
           => metadataFields = <<[name |-> "t", type |-> "string | number",
                                  sampleValues |-> <<JStr("x"), JNum(1)>>]>>

\* the fields of [{t: "x"}, {t: 1}] have arrived
C22_Witness ==
  /\ selectedCollection = "notes"
  /\ chromaMetadatas["notes"] = <<JObj(<<Member("t", JStr("x"))>>),
                                  JObj(<<Member("t", JNum(1))>>)>>
  /\ metadataInFlight = <<>>
  /\ metadataError = NULL
  /\ Len(metadataFields) = 1

\* C23: every metadata field retains at most 5 sample values and they are
\* pairwise distinct as values: structurally equal arrays or objects count
\* once.
C23_DistinctSamples ==
  \A j \in 1..Len(metadataFields) :
    /\ Len(metadataFields[j].sampleValues) <= 5
    /\ \A a, b \in 1..Len(metadataFields[j].sampleValues) :
         a # b => metadataFields[j].sampleValues[a]
                    # metadataFields[j].sampleValues[b]

\* C24: when a browse or search response is stored, the records have the
\* length and order of the raw response's id column, record k holds the k-th
\* id, document, metadata and embedding of the columns, and a column that is
\* missing or has no k-th element gives null for that field.
C24_AdapterZips ==
  [][LET all == {"documents", "metadatas", "embeddings"}
         field(column, k, null) ==
           IF column # NULL /\ k <= Len(column) THEN column[k] ELSE null
         zipped(recs, ids, documents, metadatas, embeddings) ==
           /\ Len(recs) = Len(ids)
           /\ \A k \in 1..Len(ids) :
                /\ recs[k].id = ids[k]
                /\ recs[k].document = field(documents, k, NULL)
                /\ recs[k].metadata = field(metadatas, k, JNull)
                /\ recs[k].embedding = field(embeddings, k, NULL)
     IN \A i \in 1..MaxInFlight :
          /\ RecordsResponse(i, TRUE)
             => LET req == recordsInFlight[i]
                    raw == collectionGet(req.collection,
                                         (req.page - 1) * req.pageSize,
                                         req.pageSize, req.where, all)
                IN zipped(records', raw.ids, raw.documents, raw.metadatas,
                          raw.embeddings)
          /\ SearchResponse(i, TRUE) /\ searchInFlight[i].type = "text"
             => LET req == searchInFlight[i]
                    raw == collectionGetContaining(req.collection, req.query,
                                                   req.limit, all)
                IN zipped(results', raw.ids, raw.documents, raw.metadatas,
                          raw.embeddings)
          /\ SearchResponse(i, TRUE) /\ searchInFlight[i].type = "semantic"
             => LET req == searchInFlight[i]
                    raw == collectionQuery(req.collection, req.query, req.limit,
                                           {"documents", "metadatas",
                                            "distances"})
                IN zipped(results', raw.ids[1], raw.documents[1],
                          raw.metadatas[1], raw.embeddings)]_vars

\* a browse page with embeddings is held next to semantic results, which have
\* no embeddings column, and a record without a document is among both
C24_Witness ==
  /\ records # <<>>
  /\ \A k \in 1..Len(records) : records[k].embedding # NULL
  /\ \E k \in 1..Len(records) : records[k].document = NULL
  /\ searchType = Some("semantic")
  /\ results # <<>>
  /\ \A k \in 1..Len(results) : results[k].embedding = NULL
  /\ \E k \in 1..Len(results) : results[k].document = NULL

\* C25: the page is at least 1 in every state; totalPages is the ceiling of
\* total / pageSize (19 for 456 records at 25 per page); a step to the
\* previous page is taken only from a page above 1 and a step to the next
\* page only from a page below totalPages.
C25_PageBounds ==
  /\ [](/\ page >= 1
        /\ totalPages * pageSize >= total
        /\ (totalPages - 1) * pageSize < total \/ (total = 0 /\ totalPages = 0)
        /\ ceil(456, 25) = 19)
  /\ [][/\ page' = page - 1 => page > 1
        /\ page' = page + 1 => page < totalPages]_vars

\* the last of several pages is shown: next is disabled, previous enabled
C25_Witness ==
  /\ page = 3
  /\ totalPages = 3
  /\ pageSize = 10
  /\ recordsInFlight = <<>>
  /\ Len(records) = 5

\* C26: a fetch is answered once and never issued again by the slice: the
\* response step takes the request out of flight, stores the response or an
\* error and clears the busy flag; with nothing in flight the busy flag is
\* false, and a busy slice is eventually not busy.
C26_FetchTerminates ==
  /\ [][\A i \in 1..MaxInFlight, ok \in BOOLEAN :
          /\ RecordsResponse(i, ok)
             => /\ recordsInFlight' = RemoveAt(recordsInFlight, i)
                /\ ~isLoading'
                /\ IF ok
                   THEN /\ records' = RecordsGET(recordsInFlight[i]).records
                        /\ total' = RecordsGET(recordsInFlight[i]).total
                   ELSE recordsError' # NULL
          /\ MetadataResponse(i, ok)
             => /\ metadataInFlight' = RemoveAt(metadataInFlight, i)
                /\ ~metadataIsLoading'
                /\ IF ok
                   THEN metadataFields'
                          = MetadataGET(metadataInFlight[i].collection)
                   ELSE metadataError' # NULL
          /\ SearchResponse(i, ok)
             => /\ searchInFlight' = RemoveAt(searchInFlight, i)
                /\ ~isSearching'
                /\ IF ok
                   THEN results' = SearchPOST(searchInFlight[i]).results
                   ELSE searchError' # NULL]_vars
  /\ [](/\ recordsInFlight = <<>> => ~isLoading
        /\ metadataInFlight = <<>> => ~metadataIsLoading
        /\ searchInFlight = <<>> => ~isSearching)
  /\ isLoading ~> ~isLoading
  /\ metadataIsLoading ~> ~metadataIsLoading
  /\ isSearching ~> ~isSearching

\* every slice has answered a fetch, one of them with a failure, and none is
\* busy
C26_Witness ==
  /\ Idle
  /\ ~isLoading /\ ~metadataIsLoading /\ ~isSearching
  /\ records # <<>>
  /\ metadataError # NULL
  /\ results # <<>>

\* C27: the busy flag of a slice is true in every state in which a fetch of
\* that slice is in flight.
C27_BusyWhileInFlight ==
  /\ recordsInFlight # <<>> => isLoading
  /\ metadataInFlight # <<>> => metadataIsLoading
  /\ searchInFlight # <<>> => isSearching

\* C28: in the browse slice and in the search slice a non-null error comes
\* with an empty result list: no records and total 0, no results and no
\* distances.
C28_ErrorMeansEmpty ==
  /\ recordsError # NULL => records = <<>> /\ total = 0
  /\ searchError # NULL => results = <<>> /\ distances = <<>>

\* C29: a page-size change or a collection switch made while page > 1 issues
\* browse requests for page 1 only: none carries the new page size or the new
\* collection together with the old page number.
C29_ResetBeforeFetch ==
  [][(/\ page > 1
      /\ pageSize' # pageSize \/ selectedCollection' # selectedCollection)
     => \A k \in (Len(recordsInFlight) + 1)..Len(recordsInFlight') :
          recordsInFlight'[k].page = 1]_vars

\* C30: a search rejected by validation (no collection, no connection, or a
\* text that is empty after trimming, as Find Similar passes for a record
\* whose document is blank) sets the search error and nothing else: no
\* request is issued and the query text, the mode, the results, the distances
\* and the busy flag are unchanged, so an active search stays active.
C30_RejectedSearch ==
  [][/\ \A i \in 1..limit :
          (handleFindSimilar(i) /\ trim(displayData[i].document[1]) = <<>>)
          => /\ searchError' = Some("Search query cannot be empty")
             /\ UNCHANGED <<searchQuery, searchType, results, distances,
                            isSearching, searchInFlight>>
     /\ (/\ searchError' # searchError
         /\ searchError' \in {Some("Search query cannot be empty"),
                              Some("No collection or connection available")})
        => UNCHANGED <<searchQuery, searchType, results, distances,
                       isSearching, searchInFlight>>]_vars

\* a search is active with its results and a later search was rejected
C30_Witness ==
  /\ searchError = Some("Search query cannot be empty")
  /\ isSearchActive
  /\ results # <<>>
  /\ ~isSearching
  /\ searchInFlight = <<>>

====
